---- MODULE Spec2Model ----
(***************************************************************************)
(* perfetto_launcher (src/src/main.rs): a launcher that checks its         *)
(* installation, picks two TCP ports, spawns trace_processor_shell, binds  *)
(* a tiny_http server and serves the files of the dist directory.          *)
(*                                                                         *)
(* Strings are sequences of tokens.  "/" and "?" are the two characters    *)
(* the request handler looks for, "." is the character Path::extension     *)
(* looks for; every other token stands for a run of ordinary characters.   *)
(* A path is a sequence of components, a component a sequence of tokens.   *)
(* An absolute path is the sequence of its components below the volume     *)
(* root.                                                                   *)
(***************************************************************************)
EXTENDS Integers, Sequences, FiniteSets, TLC

VARIABLES
    pc,          \* position of main()
    fs,          \* the filesystem (environment)
    windows,     \* the build target: TRUE = Windows path rules, FALSE = Unix
    attempt,     \* loop counter of get_available_port_with_offset
    lastAlloc,   \* what the last call of get_available_port_with_offset returned
    rpc_port,    \* main's rpc_port (0 before the assignment)
    http_port,   \* main's http_port (0 before the assignment)
    probed,      \* some port has been bound by get_available_port
    checked,     \* the set of existence checks main has passed
    backend,     \* trace_processor child: "none", "running", "reaped"
    backendArgs, \* the arguments the child was spawned with
    listening,   \* the tiny_http server is bound
    browser,     \* "no", "opened", "failed"
    req          \* the request of the current loop iteration and its response

vars == <<pc, fs, windows, attempt, lastAlloc, rpc_port, http_port, probed,
          checked, backend, backendArgs, listening, browser, req>>

----------------------------------------------------------------------------
(* Bounds of the model *)

\* number of path segments of a request URL
MaxSegs == 2
\* number of characters after the first '?' of a request URL
MaxQuery == 1

----------------------------------------------------------------------------
(* Characters and names *)

SEP == "/"
QM == "?"
DOT == "."

DotName == <<DOT>>
DotDot == <<DOT, DOT>>
IndexName == <<"index", DOT, "html">>
ExeName == <<"trace_processor_shell", DOT, "exe">>
AssetsName == <<"assets">>
LinkName == <<"link">>
DistName == <<"dist">>
EvilName == <<"dist", "-evil">>
Drive == <<"C:">>

\* get_dist_dir(): the directory the launcher is installed in
DistDir == <<DistName>>
\* a file next to the dist directory whose name starts with the name of dist
EvilPath == <<EvilName>>

----------------------------------------------------------------------------
(* The filesystem.  fs is a record of what the environment can change:     *)
(*   dist  : the dist directory exists                                     *)
(*   index : "ok", "unreadable" (exists, read fails) or "missing"          *)
(*   exe   : trace_processor_shell.exe exists                              *)
(*   link  : dist/link is absent ("none"), a symlink to index.html ("in")  *)
(*           or a symlink to ../dist-evil ("out")                          *)

NoNode == [kind |-> "none"]
DirNode == [kind |-> "dir"]
FileNode(c, r) == [kind |-> "file", content |-> c, readable |-> r]
LinkNode(t) == [kind |-> "link", target |-> t]

FsStates ==
    { [dist |-> TRUE, index |-> i, exe |-> e, link |-> l] :
          i \in {"ok", "unreadable", "missing"}, e \in BOOLEAN,
          l \in {"none", "in", "out"} }
    \cup { [dist |-> FALSE, index |-> "missing", exe |-> FALSE, link |-> "none"] }

Node(f, p) ==
    IF p = <<>> THEN DirNode
    ELSE IF p = EvilPath THEN FileNode("SECRET", TRUE)
    ELSE IF ~f.dist THEN NoNode
    ELSE IF p = DistDir THEN DirNode
    ELSE IF p = DistDir \o <<AssetsName>> THEN DirNode
    ELSE IF p = DistDir \o <<IndexName>> /\ f.index # "missing"
        THEN FileNode("INDEX", f.index = "ok")
    ELSE IF p = DistDir \o <<ExeName>> /\ f.exe THEN FileNode("EXE", TRUE)
    ELSE IF p = DistDir \o <<LinkName>> /\ f.link = "in" THEN LinkNode(<<IndexName>>)
    ELSE IF p = DistDir \o <<LinkName>> /\ f.link = "out"
        THEN LinkNode(<<DotDot, EvilName>>)
    ELSE NoNode

Parent(p) == IF p = <<>> THEN p ELSE SubSeq(p, 1, Len(p) - 1)

----------------------------------------------------------------------------
(* std::path and std::fs *)

\* Path::components: the pieces between separators, empty pieces skipped
RECURSIVE Split(_, _, _)
Split(s, cur, acc) ==
    IF s = <<>> THEN (IF cur = <<>> THEN acc ELSE Append(acc, cur))
    ELSE IF Head(s) = SEP
        THEN Split(Tail(s), <<>>, IF cur = <<>> THEN acc ELSE Append(acc, cur))
    ELSE Split(Tail(s), Append(cur, Head(s)), acc)

Components(s) == Split(s, <<>>, <<>>)

\* Path::join: an absolute argument replaces the base.  What main passes
\* never starts with a separator (it is trimmed), so the argument replaces
\* the base only on Windows, when its first component is a drive; the
\* current directory of the drive is taken to be its root.
Join(base, rel, win) ==
    LET cs == Components(rel) IN
    IF win /\ cs # <<>> /\ Head(cs) = Drive THEN Tail(cs) ELSE base \o cs

\* Win32 resolves "." and ".." on the text of the path before it opens it
RECURSIVE LexNorm(_, _)
LexNorm(acc, rest) ==
    IF rest = <<>> THEN acc
    ELSE IF Head(rest) = DotName THEN LexNorm(acc, Tail(rest))
    ELSE IF Head(rest) = DotDot THEN LexNorm(Parent(acc), Tail(rest))
    ELSE LexNorm(Append(acc, Head(rest)), Tail(rest))

\* realpath: walk the components from the volume root; cur is the real
\* path reached so far, rest what is still to be resolved
RECURSIVE Walk(_, _, _)
Walk(f, cur, rest) ==
    IF rest = <<>> THEN [ok |-> TRUE, path |-> cur]
    ELSE IF Node(f, cur).kind # "dir" THEN [ok |-> FALSE, path |-> <<>>]
    ELSE IF Head(rest) = DotName THEN Walk(f, cur, Tail(rest))
    ELSE IF Head(rest) = DotDot THEN Walk(f, Parent(cur), Tail(rest))
    ELSE LET n == Node(f, Append(cur, Head(rest))) IN
         IF n.kind = "none" THEN [ok |-> FALSE, path |-> <<>>]
         ELSE IF n.kind = "link" THEN Walk(f, cur, n.target \o Tail(rest))
         ELSE Walk(f, Append(cur, Head(rest)), Tail(rest))

\* Path::canonicalize
Canonicalize(f, p, win) == Walk(f, <<>>, IF win THEN LexNorm(<<>>, p) ELSE p)

\* Path::exists: the metadata of the path, symlinks followed, can be read
Exists(f, p, win) == Canonicalize(f, p, win).ok

\* Path::starts_with, as a mistaken comparison of the two texts
RECURSIVE Text(_)
Text(p) == IF p = <<>> THEN <<>> ELSE <<SEP>> \o Head(p) \o Text(Tail(p))

StartsWithText(p, base) ==
    /\ Len(Text(base)) <= Len(Text(p))
    /\ SubSeq(Text(p), 1, Len(Text(base))) = Text(base)

\* Path::starts_with, as a check that is not made
StartsWithAnything(p, base) == TRUE

\* Path::starts_with: base is a prefix of p, component by component
StartsWith(p, base) ==
    /\ Len(base) <= Len(p)
    /\ SubSeq(p, 1, Len(base)) = base

\* fs::read
ReadFile(f, p) ==
    LET n == Node(f, p) IN
    IF n.kind = "file" /\ n.readable THEN [ok |-> TRUE, content |-> n.content]
    ELSE [ok |-> FALSE, content |-> ""]

\* Path::extension: what follows the last '.' of the last component; none
\* for "..", for a name without '.', and for a name whose only '.' is its
\* first character
NoExt == <<"<none>">>

Extension(p) ==
    IF p = <<>> THEN NoExt
    ELSE LET name == p[Len(p)]
             dots == { i \in 1..Len(name) : name[i] = DOT }
             last == CHOOSE i \in dots : \A j \in dots : j <= i
         IN IF name = DotDot \/ dots = {} \/ last = 1 THEN NoExt
            ELSE SubSeq(name, last + 1, Len(name))

----------------------------------------------------------------------------
(* get_mime_type *)

OctetStream == "application/octet-stream"

MimeTable ==
    ( <<"html">> :> "text/html; charset=utf-8" ) @@
    ( <<"js">> :> "application/javascript; charset=utf-8" ) @@
    ( <<"css">> :> "text/css; charset=utf-8" ) @@
    ( <<"json">> :> "application/json; charset=utf-8" ) @@
    ( <<"wasm">> :> "application/wasm" ) @@
    ( <<"png">> :> "image/png" ) @@
    ( <<"jpg">> :> "image/jpeg" ) @@
    ( <<"jpeg">> :> "image/jpeg" ) @@
    ( <<"gif">> :> "image/gif" ) @@
    ( <<"svg">> :> "image/svg+xml" ) @@
    ( <<"ico">> :> "image/x-icon" ) @@
    ( <<"woff">> :> "font/woff" ) @@
    ( <<"woff2">> :> "font/woff2" ) @@
    ( <<"ttf">> :> "font/ttf" ) @@
    ( <<"map">> :> "application/json" )

\* get_mime_type with the '.' kept in front of the extension it looks up
GetMimeTypeDotted(p) ==
    IF <<DOT>> \o Extension(p) \in DOMAIN MimeTable
    THEN MimeTable[<<DOT>> \o Extension(p)] ELSE OctetStream

GetMimeType(p) ==
    IF Extension(p) \in DOMAIN MimeTable THEN MimeTable[Extension(p)]
    ELSE OctetStream

----------------------------------------------------------------------------
(* The request loop of main *)

\* Response::from_string(body).with_status_code(code)
TextResponse(code, body) ==
    [status |-> code, body |-> body, ctype |-> "text/plain; charset=UTF-8",
     cors |-> "", file |-> <<>>, loop |-> "continue"]

\* the unwinding of main when a request's handling panics
Panicked ==
    [status |-> 0, body |-> "", ctype |-> "", cors |-> "", file |-> <<>>,
     loop |-> "panic"]

NoResp ==
    [status |-> 0, body |-> "", ctype |-> "", cors |-> "", file |-> <<>>,
     loop |-> "continue"]

NoReq == [url |-> <<>>, resp |-> NoResp]

\* str::trim_start_matches('/')
RECURSIVE TrimStart(_)
TrimStart(s) ==
    IF s # <<>> /\ Head(s) = SEP THEN TrimStart(Tail(s)) ELSE s

\* the query string left in place
WithQuery(s) == s

\* str::split('?').next(): what precedes the first '?'
RECURSIVE BeforeQuery(_)
BeforeQuery(s) ==
    IF s = <<>> \/ Head(s) = QM THEN <<>>
    ELSE <<Head(s)>> \o BeforeQuery(Tail(s))

\* url_path of the request
UrlPath(url) == BeforeQuery(TrimStart(url))

\* file_path of the request
FilePath(url, win) ==
    LET url_path == UrlPath(url) IN
    IF url_path = <<>> THEN Join(DistDir, IndexName, win)
    ELSE Join(DistDir, url_path, win)

\* Header::from_bytes(field, value): fails unless both are ASCII text, as
\* every string main passes is
AsciiText ==
    { MimeTable[e] : e \in DOMAIN MimeTable }
    \cup {OctetStream, "*", "Content-Type", "Access-Control-Allow-Origin"}

HeaderFromBytes(field, value) ==
    [ok |-> field \in AsciiText /\ value \in AsciiText, value |-> value]

\* canonicalize() of the file path unwrapped instead of matched
CanonicalizeFailedUnwrap == Panicked

\* file_path.canonicalize() failed
CanonicalizeFailed == TextResponse(404, "Not Found")

\* dist_dir_clone.canonicalize() failed
DistCanonicalizeFailed == TextResponse(500, "Internal Error")

\* the canonical path does not start with the canonical dist directory
NotWithinDist == TextResponse(403, "Forbidden")

\* fs::read(&canonical) and the response built from its result
ServeFile(f, canonical) ==
    LET content == ReadFile(f, canonical)
        content_type == HeaderFromBytes("Content-Type", GetMimeType(canonical))
        cors_origin == HeaderFromBytes("Access-Control-Allow-Origin", "*")
    IN IF ~content.ok THEN TextResponse(404, "Not Found")
       ELSE IF ~content_type.ok \/ ~cors_origin.ok THEN Panicked
       ELSE [status |-> 200, body |-> content.content,
             ctype |-> content_type.value, cors |-> cors_origin.value,
             file |-> canonical, loop |-> "continue"]

\* the body of the for loop: the response to the request of url
Respond(f, win, url) ==
    LET canonical == Canonicalize(f, FilePath(url, win), win)
        dist_canonical == Canonicalize(f, DistDir, win)
    IN IF ~canonical.ok THEN CanonicalizeFailed
       ELSE IF ~dist_canonical.ok THEN DistCanonicalizeFailed
       ELSE IF ~StartsWith(canonical.path, dist_canonical.path) THEN NotWithinDist
       ELSE ServeFile(f, canonical.path)

----------------------------------------------------------------------------
(* The requests the model sends *)

\* the numbers of '/' characters a request URL starts with
LeadingSlashes == {1, 2}
Segs == {DotDot, IndexName, ExeName, AssetsName, LinkName, EvilName, Drive}
QueryChars == {QM, "v"}

SeqsUpTo(S, n) == UNION { [1..k -> S] : k \in 0..n }

RECURSIVE Flat(_)
Flat(segs) ==
    IF segs = <<>> THEN <<>>
    ELSE IF Len(segs) = 1 THEN Head(segs)
    ELSE Head(segs) \o <<SEP>> \o Flat(Tail(segs))

Queries == {<<>>} \cup { <<QM>> \o q : q \in SeqsUpTo(QueryChars, MaxQuery) }

URLs ==
    { [i \in 1..n |-> SEP] \o Flat(segs) \o q :
          n \in LeadingSlashes, segs \in SeqsUpTo(Segs, MaxSegs), q \in Queries }

----------------------------------------------------------------------------
(* get_available_port and get_available_port_with_offset *)

\* the offset main passes to get_available_port_with_offset
Offset == 10000
\* the number of iterations of the loop of get_available_port_with_offset
Attempts == 20
\* u16::MAX
U16Max == 65535

\* ports the operating system hands out for a bind to port 0
EphemeralPorts == {49152, 55535, 55536, 65535}

NoAlloc == [port |-> 0, base |-> 0, offset |-> FALSE, bound |-> FALSE, tries |-> 0]

\* base + offset computed in u16, wrapping
CandidateU16(base, offset) == (base + offset) % (U16Max + 1)

\* base as u32 + offset as u32: the sum of two u16 values does not wrap in u32
Candidate(base, offset) == base + offset

\* candidate as u16
AsU16(n) == n % (U16Max + 1)

\* the while condition of main made false
NeverRetry(http, rpc) == FALSE

\* the while condition of main: http_port == rpc_port
Collides(http, rpc) == http = rpc

----------------------------------------------------------------------------
(* main, up to the request loop *)

\* the exe check without its return
AfterExeCheckNoReturn(found) == "check_index"

\* if !trace_processor_path.exists() { ...; return; }
AfterExeCheck(found) == IF found THEN "check_index" ELSE "aborted"

\* if !index_path.exists() { ...; return; }
AfterIndexCheck(found) == IF found THEN "alloc_rpc" ELSE "aborted"

Stopped == {"aborted", "panicked", "interrupted", "done"}

CheckExe ==
    /\ pc = "start"
    /\ LET found == Exists(fs, Join(DistDir, ExeName, windows), windows) IN
       /\ pc' = AfterExeCheck(found)
       /\ checked' = IF found THEN checked \cup {"exe"} ELSE checked
    /\ UNCHANGED <<fs, windows, attempt, lastAlloc, rpc_port, http_port, probed,
                   backend, backendArgs, listening, browser, req>>

CheckIndex ==
    /\ pc = "check_index"
    /\ LET found == Exists(fs, Join(DistDir, IndexName, windows), windows) IN
       /\ pc' = AfterIndexCheck(found)
       /\ checked' = IF found THEN checked \cup {"index"} ELSE checked
    /\ UNCHANGED <<fs, windows, attempt, lastAlloc, rpc_port, http_port, probed,
                   backend, backendArgs, listening, browser, req>>

\* get_available_port_with_offset returns port to the let of main it was
\* called from
Return(port, base, offset, bound) ==
    /\ lastAlloc' = [port |-> port, base |-> base, offset |-> offset,
                     bound |-> bound, tries |-> attempt]
    /\ attempt' = 0
    /\ IF pc = "alloc_rpc"
       THEN /\ rpc_port' = port
            /\ pc' = "alloc_http"
            /\ UNCHANGED http_port
       ELSE /\ http_port' = port
            /\ pc' = "check_distinct"
            /\ UNCHANGED rpc_port

\* one iteration of the for loop of get_available_port_with_offset
OffsetAttempt ==
    /\ pc \in {"alloc_rpc", "alloc_http"}
    /\ attempt < Attempts
    /\ probed' = TRUE
    /\ \E base \in EphemeralPorts, bind_ok \in BOOLEAN :
          LET candidate == Candidate(base, Offset) IN
          IF candidate <= U16Max /\ bind_ok
          THEN Return(AsU16(candidate), base, TRUE, bind_ok)
          ELSE /\ attempt' = attempt + 1
               /\ UNCHANGED <<pc, lastAlloc, rpc_port, http_port>>
    /\ UNCHANGED <<fs, windows, checked, backend, backendArgs, listening,
                   browser, req>>

\* the get_available_port() after the for loop
Fallback ==
    /\ pc \in {"alloc_rpc", "alloc_http"}
    /\ attempt = Attempts
    /\ probed' = TRUE
    /\ \E base \in EphemeralPorts : Return(base, base, FALSE, FALSE)
    /\ UNCHANGED <<fs, windows, checked, backend, backendArgs, listening,
                   browser, req>>

\* get_available_port: the bind to port 0 fails and expect() panics
ProbeFails ==
    /\ pc \in {"alloc_rpc", "alloc_http"}
    /\ pc' = "panicked"
    /\ UNCHANGED <<fs, windows, attempt, lastAlloc, rpc_port, http_port, probed,
                   checked, backend, backendArgs, listening, browser, req>>

\* while http_port == rpc_port { http_port = get_available_port_with_offset(..) }
CheckDistinct ==
    /\ pc = "check_distinct"
    /\ pc' = IF Collides(http_port, rpc_port) THEN "alloc_http" ELSE "spawn"
    /\ UNCHANGED <<fs, windows, attempt, lastAlloc, rpc_port, http_port, probed,
                   checked, backend, backendArgs, listening, browser, req>>

\* Command::new(..).args(..).spawn().expect(..), with the trace file argument
Spawn ==
    /\ pc = "spawn"
    /\ \E trace \in {"none", "exists", "missing"}, ok \in BOOLEAN :
          IF ok /\ Exists(fs, Join(DistDir, ExeName, windows), windows)
          THEN /\ backend' = "running"
               /\ backendArgs' = [http_port |-> rpc_port, cors_port |-> http_port,
                                  trace |-> (trace = "exists")]
               /\ pc' = "bind"
          ELSE /\ pc' = "panicked"
               /\ UNCHANGED <<backend, backendArgs>>
    /\ UNCHANGED <<fs, windows, attempt, lastAlloc, rpc_port, http_port, probed,
                   checked, listening, browser, req>>

\* thread::sleep, then Server::http(..).expect(..)
BindServer ==
    /\ pc = "bind"
    /\ \E ok \in BOOLEAN :
          /\ listening' = ok
          /\ pc' = IF ok THEN "open" ELSE "panicked"
    /\ UNCHANGED <<fs, windows, attempt, lastAlloc, rpc_port, http_port, probed,
                   checked, backend, backendArgs, browser, req>>

\* open::that(&ui_url): a failure is only printed
OpenBrowser ==
    /\ pc = "open"
    /\ \E ok \in BOOLEAN : browser' = IF ok THEN "opened" ELSE "failed"
    /\ pc' = "serving"
    /\ UNCHANGED <<fs, windows, attempt, lastAlloc, rpc_port, http_port, probed,
                   checked, backend, backendArgs, listening, req>>

\* the process is ended from outside (Ctrl+C): main installs no handler
Interrupt ==
    /\ pc \notin Stopped
    /\ pc' = "interrupted"
    /\ UNCHANGED <<fs, windows, attempt, lastAlloc, rpc_port, http_port, probed,
                   checked, backend, backendArgs, listening, browser, req>>

\* the environment changes the files, between two steps of main
FsChange ==
    /\ pc \notin Stopped
    /\ req = NoReq
    /\ fs' \in FsStates \ {fs}
    /\ UNCHANGED <<pc, windows, attempt, lastAlloc, rpc_port, http_port, probed,
                   checked, backend, backendArgs, listening, browser, req>>

----------------------------------------------------------------------------
(* main, the request loop and what follows it *)

\* one iteration of for request in server.incoming_requests()
HandleRequest ==
    /\ pc = "serving"
    /\ req = NoReq
    /\ \E url \in URLs :
          LET resp == Respond(fs, windows, url) IN
          /\ req' = [url |-> url, resp |-> resp]
          /\ pc' = IF resp.loop = "continue" THEN "serving" ELSE "panicked"
          \* let _ = request.respond(response): the result of the send is
          \* dropped, no state of main depends on it
          /\ \E sent \in BOOLEAN : TRUE
    /\ UNCHANGED <<fs, windows, attempt, lastAlloc, rpc_port, http_port, probed,
                   checked, backend, backendArgs, listening, browser>>

\* the iteration ends and the loop waits for the next request
NextRequest ==
    /\ pc = "serving"
    /\ req # NoReq
    /\ req' = NoReq
    /\ UNCHANGED <<pc, fs, windows, attempt, lastAlloc, rpc_port, http_port,
                   probed, checked, backend, backendArgs, listening, browser>>

\* incoming_requests() ends
LoopExit ==
    /\ pc = "serving"
    /\ req = NoReq
    /\ pc' = "cleanup"
    /\ UNCHANGED <<fs, windows, attempt, lastAlloc, rpc_port, http_port, probed,
                   checked, backend, backendArgs, listening, browser, req>>

\* trace_processor.kill(); trace_processor.wait()
Cleanup ==
    /\ pc = "cleanup"
    /\ backend' = "reaped"
    /\ pc' = "done"
    /\ UNCHANGED <<fs, windows, attempt, lastAlloc, rpc_port, http_port, probed,
                   checked, backendArgs, listening, browser, req>>

----------------------------------------------------------------------------
(* Specifications *)

NoArgs == [http_port |-> 0, cors_port |-> 0, trace |-> FALSE]

Init ==
    /\ pc = "start"
    /\ fs \in FsStates
    /\ windows \in BOOLEAN
    /\ attempt = 0
    /\ lastAlloc = NoAlloc
    /\ rpc_port = 0
    /\ http_port = 0
    /\ probed = FALSE
    /\ checked = {}
    /\ backend = "none"
    /\ backendArgs = NoArgs
    /\ listening = FALSE
    /\ browser = "no"
    /\ req = NoReq

\* the steps of main
Startup ==
    \/ CheckExe
    \/ CheckIndex
    \/ OffsetAttempt
    \/ Fallback
    \/ CheckDistinct
    \/ Spawn
    \/ BindServer
    \/ OpenBrowser

Next ==
    \/ Startup
    \/ ProbeFails
    \/ Interrupt
    \/ FsChange

\* main from its first statement to the entry of the request loop
Spec == Init /\ [][Next]_vars

\* main is scheduled: a step of main that can be taken is taken
FairSpec == Spec /\ WF_vars(Startup)

\* the state in which main enters the request loop: both checks passed, the
\* two ports allocated (the first from base 49152 with the offset, the
\* second from base 55535 with the offset), the child running, the server
\* bound, the browser opened
ServeInit ==
    /\ pc = "serving"
    /\ fs \in FsStates
    /\ windows \in BOOLEAN
    /\ attempt = 0
    /\ lastAlloc = [port |-> 65535, base |-> 55535, offset |-> TRUE,
                    bound |-> TRUE, tries |-> 0]
    /\ rpc_port = 59152
    /\ http_port = 65535
    /\ probed = TRUE
    /\ checked = {"exe", "index"}
    /\ backend = "running"
    /\ backendArgs = [http_port |-> 59152, cors_port |-> 65535, trace |-> FALSE]
    /\ listening = TRUE
    /\ browser = "opened"
    /\ req = NoReq

ServeNext ==
    \/ HandleRequest
    \/ NextRequest
    \/ LoopExit
    \/ Cleanup
    \/ FsChange

\* main from the entry of the request loop, left to run
ServeSpec == ServeInit /\ [][ServeNext]_vars

----------------------------------------------------------------------------
(* Properties *)

Handled == req # NoReq

\* p is root or lies below it, component by component
Within(p, root) == \E rest \in {SubSeq(p, k + 1, Len(p)) : k \in 0..Len(p)} : p = root \o rest

\* p names a location directly: no "." or "..", and every directory on the
\* way, p included, is there itself and not a symlink
IsReal(f, p) ==
    \A k \in 1..Len(p) :
        /\ p[k] \notin {DotName, DotDot}
        /\ Node(f, SubSeq(p, 1, k)).kind \in {"dir", "file"}

\* the canonical location of the file the current request names
Target == Canonicalize(fs, FilePath(req.url, windows), windows)
\* the canonical location of the dist directory
Root == Canonicalize(fs, DistDir, windows)

FileContents == {"INDEX", "EXE", "SECRET"}

\* C1: a 200 response carries the contents of a file whose canonical path
\* is the canonical dist directory or lies below it; nothing outside that
\* subtree is read and served, whatever the request path.
ServedOnlyWithinRoot ==
    req.resp.status = 200 =>
        /\ IsReal(fs, DistDir)
        /\ IsReal(fs, req.resp.file)
        /\ Within(req.resp.file, DistDir)
        /\ Node(fs, req.resp.file).kind = "file"
        /\ req.resp.body = Node(fs, req.resp.file).content
        /\ req.resp.body # "SECRET"

\* a file is served for a request that names a symlink
ServedThroughLink ==
    /\ req.resp.status = 200
    /\ Components(UrlPath(req.url)) = <<LinkName>>
    /\ req.resp.file = DistDir \o <<IndexName>>

\* C2: a request whose candidate canonicalizes to an existing location
\* outside the canonical dist directory, a sibling whose name starts with
\* "dist" included, is answered 403 "Forbidden" and never with contents.
OutsideIsForbidden ==
    Handled =>
        LET t == Target
            r == Root
        IN (t.ok /\ r.ok /\ ~Within(t.path, r.path)) =>
               /\ req.resp.status = 403
               /\ req.resp.body = "Forbidden"
               /\ req.resp.body \notin FileContents

\* the sibling dist-evil was requested with ".." and refused
SiblingRefused ==
    /\ Handled
    /\ Components(UrlPath(req.url)) = <<DotDot, EvilName>>
    /\ Target.ok
    /\ Target.path = EvilPath
    /\ Root.ok
    /\ req.resp.status = 403

\* the Content-Type the extension table gives for a canonical path
TableType(p) ==
    IF Extension(p) \in DOMAIN MimeTable THEN MimeTable[Extension(p)]
    ELSE "application/octet-stream"

StrictlyInside(p, root) == Within(p, root) /\ p # root

ServedAsFile(p) ==
    /\ req.resp.status = 200
    /\ Node(fs, p).kind = "file"
    /\ req.resp.body = Node(fs, p).content
    /\ req.resp.ctype = TableType(p)
    /\ req.resp.cors = "*"

\* C3 as stated: every request that canonicalizes to a location strictly
\* inside the dist directory gets 200 with the bytes of that file, the
\* Content-Type of its extension and Access-Control-Allow-Origin: *.
InsideIsServed ==
    Handled =>
        LET t == Target
            r == Root
        IN (t.ok /\ r.ok /\ StrictlyInside(t.path, r.path)) => ServedAsFile(t.path)

\* C3 amended: every request that canonicalizes to a location strictly
\* inside the dist directory which is a file that can be read gets 200
\* with the bytes of that file, the Content-Type of its extension and
\* Access-Control-Allow-Origin: *.
InsideReadableIsServed ==
    Handled =>
        LET t == Target
            r == Root
        IN (/\ t.ok
            /\ r.ok
            /\ StrictlyInside(t.path, r.path)
            /\ ReadFile(fs, t.path).ok) => ServedAsFile(t.path)

\* index.html was served as text/html
HtmlServed ==
    /\ Handled
    /\ Target.ok
    /\ Target.path = DistDir \o <<IndexName>>
    /\ req.resp.status = 200
    /\ req.resp.body = "INDEX"
    /\ req.resp.ctype = "text/html; charset=utf-8"

\* the position of the first '?' of s, Len(s) + 1 when it has none
FirstQM(s) ==
    CHOOSE i \in 1..(Len(s) + 1) :
        /\ i = Len(s) + 1 \/ s[i] = QM
        /\ \A j \in 1..(i - 1) : s[j] # QM

\* the number of '/' characters s starts with
LeadLen(s) ==
    CHOOSE n \in 0..Len(s) :
        /\ \A j \in 1..n : s[j] = SEP
        /\ n = Len(s) \/ s[n + 1] # SEP

\* the normalized path of a URL: its text between the leading '/'
\* characters and the first '?', "index.html" if that is empty
Normalized(url) ==
    LET cut == SubSeq(url, 1, FirstQM(url) - 1)
        path == SubSeq(cut, LeadLen(cut) + 1, Len(cut))
    IN IF path = <<>> THEN IndexName ELSE path

\* C4: the response to a request is the response to "/" followed by its
\* normalized path: / is answered as /index.html, /x?q as /x.
NormalizedPathDecides ==
    Handled => req.resp = Respond(fs, windows, <<SEP>> \o Normalized(req.url))

\* index.html was served for a URL that is only slashes and a query
IndexServedForQuery ==
    /\ Handled
    /\ Len(req.url) > LeadLen(req.url)
    /\ req.url[LeadLen(req.url) + 1] = QM
    /\ req.url[Len(req.url)] # QM
    /\ req.resp.status = 200
    /\ req.resp.body = "INDEX"

\* C5: from the moment the child is spawned on, rpc_port and http_port are
\* different numbers.
PortsDistinct ==
    (pc \in {"spawn", "bind", "open", "serving"} \/ backend # "none") =>
        /\ rpc_port # http_port
        /\ backend # "none" => backendArgs.http_port # backendArgs.cors_port

\* the child runs, spawned with two different ports
SpawnedWithTwoPorts ==
    /\ backend = "running"
    /\ backendArgs.http_port = rpc_port
    /\ backendArgs.cors_port = http_port
    /\ rpc_port # http_port

\* C6: the allocation of the two ports ends, with distinct ports or with a
\* fatal error, whatever ports the operating system returns.
AllocationEnds ==
    (pc = "alloc_rpc") ~> (pc \notin {"alloc_rpc", "alloc_http", "check_distinct"})

\* C7: main probes no port, spawns no child, binds no server and opens no
\* browser before both existence checks have passed; when it returns
\* because a file is missing none of these has happened.
ChecksPrecedeSideEffects ==
    /\ (probed \/ backend # "none" \/ listening \/ browser # "no") =>
           checked = {"exe", "index"}
    /\ pc = "aborted" =>
           ~probed /\ backend = "none" /\ ~listening /\ browser = "no"

\* main returned because trace_processor_shell.exe is missing
AbortedWithoutExe ==
    /\ pc = "aborted"
    /\ checked = {}
    /\ ~Exists(fs, Join(DistDir, ExeName, windows), windows)

\* C8: handling a request leaves main in the request loop with the child
\* and the server as they were, whichever response it ends with.
LoopSurvivesRequests ==
    [][(pc = "serving" /\ req = NoReq /\ req' # NoReq) =>
           /\ pc' = "serving"
           /\ backend' = backend
           /\ listening' = listening
           /\ req'.resp.status \in {200, 403, 404, 500}]_vars

\* a request has failed with 500 and main is still in the loop
ServingAfterInternalError ==
    /\ pc = "serving"
    /\ Handled
    /\ req.resp.status = 500
    /\ req.resp.body = "Internal Error"

\* C9: whenever main has stopped after spawning the child, the child has
\* been killed and waited on.
ChildReapedWhenStopped ==
    (pc \in Stopped /\ backendArgs # NoArgs) => backend = "reaped"

\* C10: get_available_port_with_offset makes at most 20 attempts; a port it
\* returns from an attempt is base + offset, not above 65535, and was bound
\* by it; otherwise it returns a plain ephemeral port after 20 attempts.
AllocationSound ==
    /\ attempt <= Attempts
    /\ lastAlloc # NoAlloc =>
           /\ lastAlloc.tries <= Attempts
           /\ lastAlloc.port <= 65535
           /\ IF lastAlloc.offset
              THEN /\ lastAlloc.port = lastAlloc.base + 10000
                   /\ lastAlloc.bound
              ELSE /\ lastAlloc.port = lastAlloc.base
                   /\ lastAlloc.tries = Attempts

\* the fallback port was returned after 20 failed attempts
FellBack ==
    /\ lastAlloc # NoAlloc
    /\ ~lastAlloc.offset
    /\ lastAlloc.tries = 20

====
